---- MODULE Spec2Model ----
(***************************************************************************)
(* The ping protocol handler of protocols/ping/src/lib.rs as a state       *)
(* machine.  Every callback of ServiceProtocol (connected, disconnected,   *)
(* received, notify) is one action; the wall clock read by                 *)
(* SystemTime::now() is the variable now, moved by the clock actions.      *)
(***************************************************************************)
EXTENDS Integers, Sequences, FiniteSets, TLC

\* ------------------------------------------------------------------ bounds
NumSessions == 2
MaxTime == 2
\* clock ticks per second: last_ping has sub-second resolution, the nonce
\* has not
TicksPerSec == 2
\* PingHandler.timeout, in ticks (a non-zero Duration)
ProbeTimeout == 1

\* ------------------------------------------------------- program constants
SEND_PING_TOKEN == 0
CHECK_TIMEOUT_TOKEN == 1
Sessions == 1..NumSessions
Times == 0..MaxTime
PeerIds == {"pA", "pB"}
\* pubkey.peer_id() of the peer behind session s: sessions of one peer and
\* sessions of different peers
PeerOf(s) == IF s % 2 = 1 THEN "pA" ELSE "pB"
\* session.remote_pubkey of session s: Some(pubkey) or None
Pubkeys(s) == {PeerOf(s), "None"}
\* a token the handler registers no timer for
Tokens == {SEND_PING_TOKEN, CHECK_TIMEOUT_TOKEN, CHECK_TIMEOUT_TOKEN + 1}

VARIABLES
    connected_session_ids,  \* HashMap<SessionId, PingStatus>
    sessions,               \* the transport's open sessions and their remote_pubkey
    now,                    \* SystemTime::now()
    aborted,                \* the handler has panicked
    call,                   \* the callback the transport made last
    out,                    \* what that callback asked of the transport and the channel, in order
    answered,               \* history: the session and nonce of the pong accepted last
    unsent,                 \* history: the sessions in flight whose broadcast the transport refused
    probed                  \* history: the sessions collected by a send-ping tick since they opened or last ponged

vars == <<connected_session_ids, sessions, now, aborted, call, out, answered, unsent, probed>>

\* the history variables, which no callback reads
hist == <<answered, unsent, probed>>

\* ------------------------------------------------------------ PingStatus
\* mutant: a session opens with a probe in flight
PingStatus_in_flight(processing, last_ping, peer_id) ==
    [processing |-> TRUE, last_ping |-> last_ping, peer_id |-> peer_id]

PingStatus(processing, last_ping, peer_id) ==
    [processing |-> processing, last_ping |-> last_ping, peer_id |-> peer_id]

\* The whole seconds since the epoch, 0 for a time before the epoch
\* (duration_since fails).  Every time of Times is far below 2^32 seconds,
\* so the cast `as u32` drops nothing here.
nonce(ps) ==
    IF ps.last_ping < 0 THEN 0 ELSE ps.last_ping \div TicksPerSec

\* mutant: the time is measured from now, not from last_ping
elapsed_from_now(ps) == now - now

\* SystemTime::elapsed fails when the clock is behind last_ping
elapsed(ps) ==
    IF now >= ps.last_ping THEN now - ps.last_ping ELSE 0

\* ---------------------------------------------------------- wire messages
\* The bytes of a PingMessage: whether the verifier accepts them, the
\* payload tag and the nonce of the payload.
build_ping(n) == [valid |-> TRUE, payload_type |-> "Ping", nonce |-> n]

\* mutant: the reply carries a nonce of its own, not the received one
build_pong_zero(n) == [valid |-> TRUE, payload_type |-> "Pong", nonce |-> 0]

build_pong(n) == [valid |-> TRUE, payload_type |-> "Pong", nonce |-> n]

NonceVals == {t \div TicksPerSec : t \in Times}

Datas ==
    {build_ping(n) : n \in NonceVals} \cup {build_pong(n) : n \in NonceVals}
        \cup {[valid |-> TRUE, payload_type |-> "NONE", nonce |-> 0],
              [valid |-> FALSE, payload_type |-> "NONE", nonce |-> 0]}

\* get_root::<PingMessage>(data).is_ok()
get_root_ok(data) == data.valid

\* ------------------------------------------------------------- outputs
EventPing(peer_id) == [ev |-> "Ping", peer_id |-> peer_id]

EventPong(peer_id, ping_time) == [ev |-> "Pong", peer_id |-> peer_id, ping_time |-> ping_time]

EventTimeout(peer_id) == [ev |-> "Timeout", peer_id |-> peer_id]

EventUnexpectedError(peer_id) == [ev |-> "UnexpectedError", peer_id |-> peer_id]

\* event_sender.try_send(event); ok is whether the channel took it.  session
\* is the session the event is about.
send_event(event, s, ok) ==
    [kind |-> "try_send", event |-> event, session |-> s, ok |-> ok]

\* context.send_message(data) on the session of the callback
send_message(s, data, ok) ==
    [kind |-> "send_message", session |-> s, data |-> data, ok |-> ok]

\* context.filter_broadcast(TargetSession::Multi(peer_ids), proto_id, data)
filter_broadcast(peer_ids, data, ok) ==
    [kind |-> "filter_broadcast", targets |-> peer_ids, data |-> data, ok |-> ok]

\* context.disconnect(session.id)
disconnect(s, ok) == [kind |-> "disconnect", session |-> s, ok |-> ok]

NoAnswer == [session |-> 0, nonce |-> 0]

\* ---------------------------------------------------------------- Init
Init ==
    /\ connected_session_ids = << >>
    /\ sessions = << >>
    /\ now \in Times
    /\ aborted = FALSE
    /\ call = [op |-> "new"]
    /\ out = << >>
    /\ answered = NoAnswer
    /\ unsent = {}
    /\ probed = {}

\* mutant: a session with a probe in flight is kept
RemoveIdle(m, s) ==
    IF s \in DOMAIN m /\ m[s].processing THEN m ELSE [k \in DOMAIN m \ {s} |-> m[k]]

\* HashMap::remove
Remove(m, s) == [k \in DOMAIN m \ {s} |-> m[k]]

\* mutant: HashMap::insert, which replaces the state of a tracked session
Insert(m, s, ps) == [k \in DOMAIN m \cup {s} |-> IF k = s THEN ps ELSE m[k]]

\* HashMap::entry(s).or_insert_with(|| ps)
OrInsertWith(m, s, ps) ==
    IF s \in DOMAIN m THEN m ELSE [k \in DOMAIN m \cup {s} |-> IF k = s THEN ps ELSE m[k]]

\* ----------------------------------------------------------- connected
\* mutant: a session without a pubkey is tracked as well
connected_track_anonymous(s, pubkey, ok) ==
    /\ ~aborted
    /\ s \in DOMAIN sessions => sessions[s] = pubkey
    /\ sessions' = [k \in DOMAIN sessions \cup {s} |-> IF k = s THEN pubkey ELSE sessions[k]]
    /\ call' = [op |-> "connected", session |-> s, pubkey |-> pubkey]
    /\ connected_session_ids' =
            OrInsertWith(connected_session_ids, s, PingStatus(FALSE, now, pubkey))
    /\ out' = IF pubkey # "None" THEN << >> ELSE <<disconnect(s, ok)>>
    /\ UNCHANGED <<now, aborted>>

\* The transport opens the protocol on session s, whose remote_pubkey is
\* pubkey; a session that is open already keeps its remote_pubkey.
connected(s, pubkey, ok) ==
    /\ ~aborted
    /\ s \in DOMAIN sessions => sessions[s] = pubkey
    /\ sessions' = [k \in DOMAIN sessions \cup {s} |-> IF k = s THEN pubkey ELSE sessions[k]]
    /\ call' = [op |-> "connected", session |-> s, pubkey |-> pubkey]
    /\ IF pubkey # "None"
         THEN /\ connected_session_ids' =
                    OrInsertWith(connected_session_ids, s, PingStatus(FALSE, now, pubkey))
              /\ out' = << >>
         ELSE /\ out' = <<disconnect(s, ok)>>
              /\ UNCHANGED connected_session_ids
    /\ UNCHANGED <<now, aborted>>

\* -------------------------------------------------------- disconnected
disconnected(s) ==
    /\ ~aborted
    /\ s \in DOMAIN sessions
    /\ sessions' = [k \in DOMAIN sessions \ {s} |-> sessions[k]]
    /\ connected_session_ids' = Remove(connected_session_ids, s)
    /\ call' = [op |-> "disconnected", session |-> s]
    /\ out' = << >>
    /\ UNCHANGED <<now, aborted>>

\* ------------------------------------------------------------ received
\* mutant: the check forgets processing
pong_matches_nonce_only(m, s, n) ==
    /\ s \in DOMAIN m
    /\ nonce(m[s]) = n

\* mutant: the check forgets the nonce
pong_matches_processing_only(m, s, n) ==
    /\ s \in DOMAIN m
    /\ m[s].processing

\* the check of a pong: (ps.processing, ps.nonce()) == (true, pong_msg.nonce())
pong_matches(m, s, n) ==
    /\ s \in DOMAIN m
    /\ m[s].processing
    /\ nonce(m[s]) = n

\* mutant: bytes that do not decode cost the session its probe and its
\* connection
received_closes_on_garbage(s, data, ev_ok, send_ok) ==
    /\ ~aborted
    /\ s \in DOMAIN sessions
    /\ call' = [op |-> "received", session |-> s, data |-> data]
    /\ IF s \notin DOMAIN connected_session_ids
         THEN /\ out' = << >>
              /\ UNCHANGED connected_session_ids
         ELSE LET ps == connected_session_ids[s]
                  peer_id == ps.peer_id
              IN  IF ~get_root_ok(data)
                    THEN /\ out' = <<send_event(EventUnexpectedError(peer_id), s, ev_ok),
                                     disconnect(s, send_ok)>>
                         /\ connected_session_ids' =
                                [connected_session_ids EXCEPT ![s].processing = FALSE]
                    ELSE CASE data.payload_type = "Ping" ->
                                /\ out' = <<send_message(s, build_pong(data.nonce), send_ok),
                                            send_event(EventPing(peer_id), s, ev_ok)>>
                                /\ UNCHANGED connected_session_ids
                           [] data.payload_type = "Pong" ->
                                IF pong_matches(connected_session_ids, s, data.nonce)
                                  THEN /\ connected_session_ids' =
                                            [connected_session_ids EXCEPT ![s].processing = FALSE]
                                       /\ out' = <<send_event(EventPong(peer_id, elapsed(ps)), s, ev_ok)>>
                                  ELSE /\ out' = <<send_event(EventUnexpectedError(peer_id), s, ev_ok)>>
                                       /\ UNCHANGED connected_session_ids
                           [] data.payload_type = "NONE" ->
                                /\ out' = <<send_event(EventUnexpectedError(peer_id), s, ev_ok)>>
                                /\ UNCHANGED connected_session_ids
    /\ UNCHANGED <<sessions, now, aborted>>

\* mutant: an accepted pong clears processing only when the channel took
\* the event
received_needs_channel(s, data, ev_ok, send_ok) ==
    /\ ~aborted
    /\ s \in DOMAIN sessions
    /\ call' = [op |-> "received", session |-> s, data |-> data]
    /\ IF s \notin DOMAIN connected_session_ids
         THEN /\ out' = << >>
              /\ UNCHANGED connected_session_ids
         ELSE LET ps == connected_session_ids[s]
                  peer_id == ps.peer_id
              IN  IF ~get_root_ok(data)
                    THEN /\ out' = <<send_event(EventUnexpectedError(peer_id), s, ev_ok)>>
                         /\ UNCHANGED connected_session_ids
                    ELSE CASE data.payload_type = "Ping" ->
                                /\ out' = <<send_message(s, build_pong(data.nonce), send_ok),
                                            send_event(EventPing(peer_id), s, ev_ok)>>
                                /\ UNCHANGED connected_session_ids
                           [] data.payload_type = "Pong" ->
                                IF pong_matches(connected_session_ids, s, data.nonce)
                                  THEN /\ connected_session_ids' =
                                            [connected_session_ids EXCEPT ![s].processing = ~ev_ok]
                                       /\ out' = <<send_event(EventPong(peer_id, elapsed(ps)), s, ev_ok)>>
                                  ELSE /\ out' = <<send_event(EventUnexpectedError(peer_id), s, ev_ok)>>
                                       /\ UNCHANGED connected_session_ids
                           [] data.payload_type = "NONE" ->
                                /\ out' = <<send_event(EventUnexpectedError(peer_id), s, ev_ok)>>
                                /\ UNCHANGED connected_session_ids
    /\ UNCHANGED <<sessions, now, aborted>>

\* mutant: a ping that carries the nonce of the probe in flight answers it,
\* and a pong that cannot be sent ends the callback
received_ping_answers_probe(s, data, ev_ok, send_ok) ==
    /\ ~aborted
    /\ s \in DOMAIN sessions
    /\ call' = [op |-> "received", session |-> s, data |-> data]
    /\ IF s \notin DOMAIN connected_session_ids
         THEN /\ out' = << >>
              /\ UNCHANGED connected_session_ids
         ELSE LET ps == connected_session_ids[s]
                  peer_id == ps.peer_id
              IN  IF ~get_root_ok(data)
                    THEN /\ out' = <<send_event(EventUnexpectedError(peer_id), s, ev_ok)>>
                         /\ UNCHANGED connected_session_ids
                    ELSE CASE data.payload_type = "Ping" ->
                                /\ out' = IF send_ok
                                            THEN <<send_message(s, build_pong(data.nonce), send_ok),
                                                   send_event(EventPing(peer_id), s, ev_ok)>>
                                            ELSE <<send_message(s, build_pong(data.nonce), send_ok)>>
                                /\ connected_session_ids' =
                                      IF pong_matches(connected_session_ids, s, data.nonce)
                                        THEN [connected_session_ids EXCEPT ![s].processing = FALSE]
                                        ELSE connected_session_ids
                           [] data.payload_type = "Pong" ->
                                IF pong_matches(connected_session_ids, s, data.nonce)
                                  THEN /\ connected_session_ids' =
                                            [connected_session_ids EXCEPT ![s].processing = FALSE]
                                       /\ out' = <<send_event(EventPong(peer_id, elapsed(ps)), s, ev_ok)>>
                                  ELSE /\ out' = <<send_event(EventUnexpectedError(peer_id), s, ev_ok)>>
                                       /\ UNCHANGED connected_session_ids
                           [] data.payload_type = "NONE" ->
                                /\ out' = <<send_event(EventUnexpectedError(peer_id), s, ev_ok)>>
                                /\ UNCHANGED connected_session_ids
    /\ UNCHANGED <<sessions, now, aborted>>

\* The transport delivers data on the open session s.  ev_ok and send_ok are
\* whether the event channel and the transport take what the handler hands
\* them.
received(s, data, ev_ok, send_ok) ==
    /\ ~aborted
    /\ s \in DOMAIN sessions
    /\ call' = [op |-> "received", session |-> s, data |-> data]
    /\ IF s \notin DOMAIN connected_session_ids
         THEN /\ out' = << >>
              /\ UNCHANGED connected_session_ids
         ELSE LET ps == connected_session_ids[s]
                  peer_id == ps.peer_id
              IN  IF ~get_root_ok(data)
                    THEN /\ out' = <<send_event(EventUnexpectedError(peer_id), s, ev_ok)>>
                         /\ UNCHANGED connected_session_ids
                    ELSE CASE data.payload_type = "Ping" ->
                                /\ out' = <<send_message(s, build_pong(data.nonce), send_ok),
                                            send_event(EventPing(peer_id), s, ev_ok)>>
                                /\ UNCHANGED connected_session_ids
                           [] data.payload_type = "Pong" ->
                                IF pong_matches(connected_session_ids, s, data.nonce)
                                  THEN /\ connected_session_ids' =
                                            [connected_session_ids EXCEPT ![s].processing = FALSE]
                                       /\ out' = <<send_event(EventPong(peer_id, elapsed(ps)), s, ev_ok)>>
                                  ELSE /\ out' = <<send_event(EventUnexpectedError(peer_id), s, ev_ok)>>
                                       /\ UNCHANGED connected_session_ids
                           [] data.payload_type = "NONE" ->
                                /\ out' = <<send_event(EventUnexpectedError(peer_id), s, ev_ok)>>
                                /\ UNCHANGED connected_session_ids
    /\ UNCHANGED <<sessions, now, aborted>>

\* -------------------------------------------------------------- notify
\* mutant: a send-ping tick collects every session
ping_peers_all(m) == DOMAIN m

\* the sessions a send-ping tick collects: those not processing
ping_peers(m) == {s \in DOMAIN m : ~m[s].processing}

\* ps.processing = true; ps.last_ping = now
probe(ps) == [ps EXCEPT !.processing = TRUE, !.last_ping = now]

\* mutant: a probe exactly timeout old is not reported
timed_out_strict(m) == {s \in DOMAIN m : m[s].processing /\ elapsed(m[s]) > ProbeTimeout}

\* the sessions a check-timeout tick reports
timed_out(m) == {s \in DOMAIN m : m[s].processing /\ elapsed(m[s]) >= ProbeTimeout}

\* the orders in which a HashMap may iterate over the keys S
Orders(S) ==
    {o \in [1..Cardinality(S) -> S] : \A i, j \in 1..Cardinality(S) : o[i] = o[j] => i = j}

\* mutant: the nonce is taken before last_ping is set
notify_send_ping_stale_nonce(ok) ==
    LET peers == ping_peers(connected_session_ids)
        stamped == [s \in DOMAIN connected_session_ids |->
                        IF s \in peers THEN probe(connected_session_ids[s])
                                       ELSE connected_session_ids[s]]
    IN  /\ connected_session_ids' = stamped
        /\ IF peers # {}
             THEN \E first \in peers :
                      out' = <<filter_broadcast(peers,
                                    build_ping(nonce(connected_session_ids[first])), ok)>>
             ELSE out' = << >>
        /\ UNCHANGED aborted

\* mutant: the tick stamps every session, also those it does not collect
notify_send_ping_restamp_all(ok) ==
    LET peers == ping_peers(connected_session_ids)
        stamped == [s \in DOMAIN connected_session_ids |-> probe(connected_session_ids[s])]
    IN  /\ connected_session_ids' = stamped
        /\ IF peers # {}
             THEN \E first \in peers :
                      out' = <<filter_broadcast(peers, build_ping(nonce(stamped[first])), ok)>>
             ELSE out' = << >>
        /\ UNCHANGED aborted

\* mutant: a refused broadcast undoes the stamps of the tick
notify_send_ping_rollback(ok) ==
    LET peers == ping_peers(connected_session_ids)
        stamped == [s \in DOMAIN connected_session_ids |->
                        IF s \in peers THEN probe(connected_session_ids[s])
                                       ELSE connected_session_ids[s]]
    IN  /\ connected_session_ids' = IF ok THEN stamped ELSE connected_session_ids
        /\ IF peers # {}
             THEN \E first \in peers :
                      out' = <<filter_broadcast(peers, build_ping(nonce(stamped[first])), ok)>>
             ELSE out' = << >>
        /\ UNCHANGED aborted

notify_send_ping(ok) ==
    LET peers == ping_peers(connected_session_ids)
        stamped == [s \in DOMAIN connected_session_ids |->
                        IF s \in peers THEN probe(connected_session_ids[s])
                                       ELSE connected_session_ids[s]]
    IN  /\ connected_session_ids' = stamped
        /\ IF peers # {}
             THEN \E first \in peers :
                      out' = <<filter_broadcast(peers, build_ping(nonce(stamped[first])), ok)>>
             ELSE out' = << >>
        /\ UNCHANGED aborted

\* mutant: a reported session is no longer processing
notify_check_timeout_clears(ok) ==
    LET late == timed_out(connected_session_ids)
    IN  /\ \E o \in Orders(late) :
              out' = [i \in 1..Cardinality(late) |->
                        send_event(EventTimeout(connected_session_ids[o[i]].peer_id), o[i], ok)]
        /\ connected_session_ids' =
              [s \in DOMAIN connected_session_ids |->
                  IF s \in late THEN [connected_session_ids[s] EXCEPT !.processing = FALSE]
                                ELSE connected_session_ids[s]]
        /\ UNCHANGED aborted

notify_check_timeout(ok) ==
    LET late == timed_out(connected_session_ids)
    IN  /\ \E o \in Orders(late) :
              out' = [i \in 1..Cardinality(late) |->
                        send_event(EventTimeout(connected_session_ids[o[i]].peer_id), o[i], ok)]
        /\ UNCHANGED <<connected_session_ids, aborted>>

\* mutant: a token of no timer is ignored
notify_ignores_unknown(token, ok) ==
    /\ ~aborted
    /\ call' = [op |-> "notify", token |-> token]
    /\ CASE token = SEND_PING_TOKEN -> notify_send_ping(ok)
         [] token = CHECK_TIMEOUT_TOKEN -> notify_check_timeout(ok)
         [] OTHER -> /\ out' = << >>
                     /\ UNCHANGED <<connected_session_ids, aborted>>
    /\ UNCHANGED <<sessions, now>>

\* The transport fires the timer registered with token.
notify(token, ok) ==
    /\ ~aborted
    /\ call' = [op |-> "notify", token |-> token]
    /\ CASE token = SEND_PING_TOKEN -> notify_send_ping(ok)
         [] token = CHECK_TIMEOUT_TOKEN -> notify_check_timeout(ok)
         [] OTHER -> /\ aborted' = TRUE
                     /\ out' = << >>
                     /\ UNCHANGED connected_session_ids
    /\ UNCHANGED <<sessions, now>>

\* ------------------------------------------------------------- clock
ClockAdvance ==
    /\ ~aborted
    /\ \E t \in Times : t > now /\ now' = t
    /\ call' = [op |-> "clock"]
    /\ out' = << >>
    /\ UNCHANGED <<connected_session_ids, sessions, aborted>>

\* the wall clock is not monotonic
ClockStepBack ==
    /\ ~aborted
    /\ \E t \in Times : t < now /\ now' = t
    /\ call' = [op |-> "clock"]
    /\ out' = << >>
    /\ UNCHANGED <<connected_session_ids, sessions, aborted>>

\* -------------------------------------------------------- specifications
\* The callbacks and the clock, without the history of accepted pongs.
Next ==
    \/ \E s \in Sessions : \E pubkey \in Pubkeys(s), ok \in BOOLEAN :
            connected(s, pubkey, ok) /\ UNCHANGED hist
    \/ \E s \in Sessions : disconnected(s) /\ UNCHANGED hist
    \/ \E s \in Sessions, data \in Datas, ev_ok, send_ok \in BOOLEAN :
            received(s, data, ev_ok, send_ok) /\ UNCHANGED hist
    \/ \E token \in Tokens, ok \in BOOLEAN : notify(token, ok) /\ UNCHANGED hist
    \/ ClockAdvance /\ UNCHANGED hist
    \/ ClockStepBack /\ UNCHANGED hist

Spec == Init /\ [][Next]_vars

\* The history of accepted pongs: answered is the session and nonce of the
\* pong accepted last, forgotten when that session closes.
History ==
    answered' =
        IF /\ call'.op = "received"
           /\ Len(out') = 1
           /\ out'[1].event.ev = "Pong"
          THEN [session |-> call'.session, nonce |-> call'.data.nonce]
          ELSE IF call'.op = "disconnected" /\ call'.session = answered.session
                 THEN NoAnswer
                 ELSE answered

\* The same steps with the history.
NextHist ==
    \/ \E s \in Sessions : \E pubkey \in Pubkeys(s), ok \in BOOLEAN :
            connected(s, pubkey, ok) /\ History /\ UNCHANGED <<unsent, probed>>
    \/ \E s \in Sessions : disconnected(s) /\ History /\ UNCHANGED <<unsent, probed>>
    \/ \E s \in Sessions, data \in Datas, ev_ok, send_ok \in BOOLEAN :
            received(s, data, ev_ok, send_ok) /\ History /\ UNCHANGED <<unsent, probed>>
    \/ \E token \in Tokens, ok \in BOOLEAN : notify(token, ok) /\ History /\ UNCHANGED <<unsent, probed>>
    \/ ClockAdvance /\ History /\ UNCHANGED <<unsent, probed>>
    \/ ClockStepBack /\ History /\ UNCHANGED <<unsent, probed>>

SpecHist == Init /\ [][NextHist]_vars

\* a send-ping tick broadcast a Ping
IsBroadcast(c, o) ==
    /\ c.op = "notify"
    /\ c.token = SEND_PING_TOKEN
    /\ Len(o) = 1

\* received accepted a pong and handed the Pong event to the channel
IsPonged(c, o) ==
    /\ c.op = "received"
    /\ Len(o) = 1
    /\ o[1].kind = "try_send"
    /\ o[1].event.ev = "Pong"

\* The history of refused broadcasts: unsent holds the sessions in flight
\* whose Ping the transport refused to broadcast, until an accepted pong or
\* the close of the session ends the probe.
HistoryUnsent ==
    unsent' =
        IF IsBroadcast(call', out')
          THEN IF out'[1].ok THEN unsent \ out'[1].targets
                             ELSE unsent \cup out'[1].targets
          ELSE IF IsPonged(call', out') \/ call'.op = "disconnected"
                 THEN unsent \ {call'.session}
                 ELSE unsent

NextUnsent ==
    \/ \E s \in Sessions : \E pubkey \in Pubkeys(s), ok \in BOOLEAN :
            connected(s, pubkey, ok) /\ HistoryUnsent /\ UNCHANGED <<answered, probed>>
    \/ \E s \in Sessions : disconnected(s) /\ HistoryUnsent /\ UNCHANGED <<answered, probed>>
    \/ \E s \in Sessions, data \in Datas, ev_ok, send_ok \in BOOLEAN :
            received(s, data, ev_ok, send_ok) /\ HistoryUnsent /\ UNCHANGED <<answered, probed>>
    \/ \E token \in Tokens, ok \in BOOLEAN :
            notify(token, ok) /\ HistoryUnsent /\ UNCHANGED <<answered, probed>>
    \/ ClockAdvance /\ HistoryUnsent /\ UNCHANGED <<answered, probed>>
    \/ ClockStepBack /\ HistoryUnsent /\ UNCHANGED <<answered, probed>>

SpecUnsent == Init /\ [][NextUnsent]_vars

\* The history of probes: probed holds the sessions a send-ping tick has
\* collected since they opened or since their last Pong event.
HistoryProbed ==
    probed' =
        IF IsBroadcast(call', out')
          THEN probed \cup out'[1].targets
          ELSE IF IsPonged(call', out') \/ call'.op = "disconnected"
                 THEN probed \ {call'.session}
                 ELSE probed

NextProbed ==
    \/ \E s \in Sessions : \E pubkey \in Pubkeys(s), ok \in BOOLEAN :
            connected(s, pubkey, ok) /\ HistoryProbed /\ UNCHANGED <<answered, unsent>>
    \/ \E s \in Sessions : disconnected(s) /\ HistoryProbed /\ UNCHANGED <<answered, unsent>>
    \/ \E s \in Sessions, data \in Datas, ev_ok, send_ok \in BOOLEAN :
            received(s, data, ev_ok, send_ok) /\ HistoryProbed /\ UNCHANGED <<answered, unsent>>
    \/ \E token \in Tokens, ok \in BOOLEAN :
            notify(token, ok) /\ HistoryProbed /\ UNCHANGED <<answered, unsent>>
    \/ ClockAdvance /\ HistoryProbed /\ UNCHANGED <<answered, unsent>>
    \/ ClockStepBack /\ HistoryProbed /\ UNCHANGED <<answered, unsent>>

SpecProbed == Init /\ [][NextProbed]_vars

\* ----------------------------------------------------------- liveness
\* The timers and the clock of a run in which probes can expire: the
\* send-ping timer fires while the clock has ProbeTimeout left to run, the
\* clock only advances, and no timer other than the two of init is
\* registered.
SendPingTick ==
    \E ok \in BOOLEAN :
        now + ProbeTimeout <= MaxTime /\ notify(SEND_PING_TOKEN, ok) /\ UNCHANGED hist

CheckTimeoutTick ==
    \E ok \in BOOLEAN : notify(CHECK_TIMEOUT_TOKEN, ok) /\ UNCHANGED hist

Tick == ClockAdvance /\ UNCHANGED hist

NextLive ==
    \/ \E s \in Sessions : \E pubkey \in Pubkeys(s), ok \in BOOLEAN :
            connected(s, pubkey, ok) /\ UNCHANGED hist
    \/ \E s \in Sessions : disconnected(s) /\ UNCHANGED hist
    \/ \E s \in Sessions, data \in Datas, ev_ok, send_ok \in BOOLEAN :
            received(s, data, ev_ok, send_ok) /\ UNCHANGED hist
    \/ SendPingTick
    \/ CheckTimeoutTick
    \/ Tick

\* The check-timeout timer is set at an interval and keeps firing; time passes.
SpecLive == Init /\ [][NextLive]_vars /\ WF_vars(CheckTimeoutTick) /\ WF_vars(Tick)

\* ============================================================== claims
\* what the claims read off a callback c and its outputs o
IsReceived(c, s, payload_type) ==
    /\ c.op = "received"
    /\ c.session = s
    /\ c.data.valid
    /\ c.data.payload_type = payload_type

IsNotify(c, token) == c.op = "notify" /\ c.token = token

\* o hands exactly one event, of kind ev and for peer_id, to the channel
OneEvent(o, ev, peer_id) ==
    /\ Len(o) = 1
    /\ o[1].kind = "try_send"
    /\ o[1].event.ev = ev
    /\ o[1].event.peer_id = peer_id

Tracked == DOMAIN connected_session_ids

\* the sets of sessions the broadcasts of o target
BroadcastTargets(o) == {o[i].targets : i \in {j \in DOMAIN o : o[j].kind = "filter_broadcast"}}

\* C1 - Nonce matching: a Pong{n} received on a tracked session is accepted
\* (processing cleared, Pong(peer, rtt) emitted, nothing else changed) iff
\* the session is processing and n is the whole seconds of its last_ping;
\* otherwise UnexpectedError(peer) is emitted and the map is unchanged.
C1_NonceMatching ==
    [][\A s \in Tracked :
          IsReceived(call', s, "Pong") =>
              LET ps == connected_session_ids[s]
                  n == call'.data.nonce
              IN  IF ps.processing /\ n * TicksPerSec <= ps.last_ping
                                   /\ ps.last_ping < (n + 1) * TicksPerSec
                    THEN /\ connected_session_ids' =
                                [connected_session_ids EXCEPT ![s].processing = FALSE]
                         /\ OneEvent(out', "Pong", ps.peer_id)
                         /\ out'[1].event.ping_time = IF now >= ps.last_ping THEN now - ps.last_ping ELSE 0
                    ELSE /\ connected_session_ids' = connected_session_ids
                         /\ OneEvent(out', "UnexpectedError", ps.peer_id)]_vars

\* a pong was accepted some time after its probe
C1_Witness ==
    \E s \in Tracked :
        /\ IsReceived(call, s, "Pong")
        /\ ~connected_session_ids[s].processing
        /\ OneEvent(out, "Pong", connected_session_ids[s].peer_id)
        /\ out[1].event.ping_time > 0

\* C2 - At most one outstanding ping: a session that is processing is in no
\* broadcast of a send-ping tick and keeps its last_ping; only an accepted
\* pong on it clears processing and only its disconnected removes it.
C2_OneOutstandingPing ==
    [][\A s \in Tracked :
          connected_session_ids[s].processing =>
              /\ IsNotify(call', SEND_PING_TOKEN) =>
                     \A T \in BroadcastTargets(out') : s \notin T
              /\ IF s \in DOMAIN connected_session_ids'
                   THEN IF connected_session_ids'[s].processing
                          THEN connected_session_ids'[s] = connected_session_ids[s]
                          ELSE /\ IsReceived(call', s, "Pong")
                               /\ OneEvent(out', "Pong", connected_session_ids[s].peer_id)
                   ELSE call'.op = "disconnected" /\ call'.session = s]_vars

\* a send-ping tick probed one session and skipped another that was in flight
C2_Witness ==
    /\ IsNotify(call, SEND_PING_TOKEN)
    /\ \E s \in Tracked, T \in BroadcastTargets(out) :
          /\ connected_session_ids[s].processing
          /\ s \notin T
          /\ T # {}

\* C3 - Shared-nonce broadcast: a send-ping tick with eligible sessions
\* makes one broadcast of one Ping to exactly the eligible sessions, its
\* nonce is the whole seconds of the new last_ping of each of them, and a
\* pong received on one session changes no other session, so each of them
\* accepts a pong echoing it in any order.
C3_SharedNonceBroadcast ==
    [][/\ IsNotify(call', SEND_PING_TOKEN) =>
            LET eligible == {s \in Tracked : ~connected_session_ids[s].processing}
            IN  eligible # {} =>
                    /\ Len(out') = 1
                    /\ out'[1].kind = "filter_broadcast"
                    /\ out'[1].targets = eligible
                    /\ out'[1].data.valid
                    /\ out'[1].data.payload_type = "Ping"
                    /\ \A s \in eligible :
                          /\ connected_session_ids'[s].processing
                          /\ connected_session_ids'[s].last_ping = now
                          /\ out'[1].data.nonce = connected_session_ids'[s].last_ping \div TicksPerSec
       /\ \A s \in Tracked :
            IsReceived(call', s, "Pong") =>
                \A r \in Tracked \ {s} :
                    /\ r \in DOMAIN connected_session_ids'
                    /\ connected_session_ids'[r] = connected_session_ids[r]]_vars

\* one Ping went to two sessions at once
C3_Witness ==
    /\ IsNotify(call, SEND_PING_TOKEN)
    /\ \E T \in BroadcastTargets(out) :
          /\ Cardinality(T) >= 2
          /\ \A s \in T : pong_matches(connected_session_ids, s, out[1].data.nonce)

\* C4 - Timeout: a check-timeout tick emits exactly one Timeout(peer) for
\* each tracked session that is processing with now - last_ping >=
\* ProbeTimeout and nothing else; it does so at every tick, whatever the
\* tick before emitted.
C4_TimeoutPerTick ==
    [][IsNotify(call', CHECK_TIMEOUT_TOKEN) =>
          LET late == {s \in Tracked : /\ connected_session_ids[s].processing
                                        /\ now - connected_session_ids[s].last_ping >= ProbeTimeout}
          IN  /\ Len(out') = Cardinality(late)
              /\ \A i \in DOMAIN out' :
                    /\ out'[i].kind = "try_send"
                    /\ out'[i].session \in late
                    /\ out'[i].event = EventTimeout(connected_session_ids[out'[i].session].peer_id)
              /\ \A s \in late : \E i \in DOMAIN out' : out'[i].session = s]_vars

\* a tick reported a session whose probe is exactly ProbeTimeout old
C4_Witness ==
    /\ IsNotify(call, CHECK_TIMEOUT_TOKEN)
    /\ \E i \in DOMAIN out :
          /\ out[i].event.ev = "Timeout"
          /\ now - connected_session_ids[out[i].session].last_ping = ProbeTimeout

\* C5 - Idempotent open: connected with a pubkey on a tracked session leaves
\* the whole map, and so the session's PingStatus, as it was.
C5_IdempotentOpen ==
    [][\A s \in Tracked :
          (call'.op = "connected" /\ call'.session = s /\ call'.pubkey # "None") =>
              connected_session_ids' = connected_session_ids]_vars

\* connected was called on a session with a probe in flight
C5_Witness ==
    /\ call.op = "connected"
    /\ call.session \in Tracked
    /\ connected_session_ids[call.session].processing

\* C6 - A ping is always answered, as claimed: every Ping{n} received on a
\* session, tracked or not, is answered by exactly one Pong{n} on that
\* session, followed by a Ping event.
C6_PingAlwaysAnswered ==
    [][\A s \in Sessions :
          IsReceived(call', s, "Ping") =>
              /\ Len(out') = 2
              /\ out'[1].kind = "send_message"
              /\ out'[1].session = s
              /\ out'[1].data = [valid |-> TRUE, payload_type |-> "Pong", nonce |-> call'.data.nonce]
              /\ out'[2].kind = "try_send"
              /\ out'[2].event.ev = "Ping"]_vars

\* C6 amended - every Ping{n} received on a tracked session, processing or
\* not, is answered by exactly one Pong{n} on that session, followed by
\* Ping(peer); a Ping received on a session that is not tracked is dropped:
\* nothing is sent and no event is emitted.
C6_PingAnsweredWhenTracked ==
    [][\A s \in Sessions :
          IsReceived(call', s, "Ping") =>
              IF s \in Tracked
                THEN /\ Len(out') = 2
                     /\ out'[1].kind = "send_message"
                     /\ out'[1].session = s
                     /\ out'[1].data = [valid |-> TRUE, payload_type |-> "Pong",
                                        nonce |-> call'.data.nonce]
                     /\ out'[2].kind = "try_send"
                     /\ out'[2].event = EventPing(connected_session_ids[s].peer_id)
                ELSE out' = << >>]_vars

\* a ping was answered on a session with a probe of another nonce in flight
C6_Witness ==
    \E s \in Tracked :
        /\ IsReceived(call, s, "Ping")
        /\ connected_session_ids[s].processing
        /\ Len(out) = 2
        /\ out[1].data.nonce = call.data.nonce
        /\ call.data.nonce # nonce(connected_session_ids[s])

\* C7 - Open without peer identity: connected without a pubkey asks the
\* transport to disconnect the session and creates no state; a session
\* open without a pubkey is not tracked, is in no broadcast and is the
\* subject of no Timeout or Pong event.
C7_OpenWithoutIdentity ==
    [][/\ \A s \in Sessions :
            (call'.op = "connected" /\ call'.session = s /\ call'.pubkey = "None") =>
                /\ Len(out') = 1
                /\ out'[1].kind = "disconnect"
                /\ out'[1].session = s
                /\ connected_session_ids' = connected_session_ids
       /\ \A s \in DOMAIN sessions' :
            sessions'[s] = "None" =>
                /\ s \notin DOMAIN connected_session_ids'
                /\ \A T \in BroadcastTargets(out') : s \notin T
                /\ \A i \in DOMAIN out' :
                      out'[i].kind = "try_send" =>
                          ~(out'[i].event.ev \in {"Timeout", "Pong"} /\ out'[i].session = s)]_vars

\* a send-ping tick broadcast while a session without a pubkey was open
C7_Witness ==
    /\ IsNotify(call, SEND_PING_TOKEN)
    /\ BroadcastTargets(out) # {}
    /\ \E s \in DOMAIN sessions : sessions[s] = "None"

\* C8 - Tracking invariant: the tracked sessions are the open sessions with
\* a pubkey; only connected with a pubkey creates a state, and a fresh one
\* (not processing, last_ping = now); only disconnected removes one, and it
\* always does.
C8_TrackingInvariant ==
    [][/\ DOMAIN connected_session_ids' = {s \in DOMAIN sessions' : sessions'[s] # "None"}
       /\ \A s \in Sessions :
            /\ (s \notin Tracked /\ s \in DOMAIN connected_session_ids') =>
                    /\ call'.op = "connected"
                    /\ call'.session = s
                    /\ call'.pubkey # "None"
                    /\ connected_session_ids'[s] =
                            [processing |-> FALSE, last_ping |-> now, peer_id |-> call'.pubkey]
            /\ (s \in Tracked /\ s \notin DOMAIN connected_session_ids') =>
                    (call'.op = "disconnected" /\ call'.session = s)
            /\ (call'.op = "disconnected" /\ call'.session = s) =>
                    s \notin DOMAIN connected_session_ids']_vars

\* a session closed while another still has a probe in flight
C8_Witness ==
    /\ call.op = "disconnected"
    /\ call.session \notin Tracked
    /\ \E r \in Tracked : connected_session_ids[r].processing

\* C9 - Every rejected pong is reported, as claimed: a Pong{n} received on
\* a session that is not tracked, or not processing, or processing with
\* another nonce, emits one UnexpectedError and changes no state.
C9_RejectedPongReported ==
    [][\A s \in Sessions :
          (IsReceived(call', s, "Pong")
              /\ ~(s \in Tracked /\ connected_session_ids[s].processing
                     /\ nonce(connected_session_ids[s]) = call'.data.nonce)) =>
              /\ Len(out') = 1
              /\ out'[1].kind = "try_send"
              /\ out'[1].event.ev = "UnexpectedError"
              /\ connected_session_ids' = connected_session_ids]_vars

\* C9 amended - a Pong{n} received on a tracked session that is not
\* processing, or processing with another nonce, emits one
\* UnexpectedError(peer); received on a session that is not tracked it
\* emits nothing; in all three cases no state is created or changed.
C9_RejectedPongOnTracked ==
    [][\A s \in Sessions :
          (IsReceived(call', s, "Pong")
              /\ ~(s \in Tracked /\ connected_session_ids[s].processing
                     /\ connected_session_ids[s].last_ping \div TicksPerSec = call'.data.nonce)) =>
              /\ connected_session_ids' = connected_session_ids
              /\ IF s \in Tracked
                   THEN OneEvent(out', "UnexpectedError", connected_session_ids[s].peer_id)
                   ELSE out' = << >>]_vars

\* a pong with another nonce than the probe in flight was rejected
C9_Witness ==
    \E s \in Tracked :
        /\ IsReceived(call, s, "Pong")
        /\ connected_session_ids[s].processing
        /\ call.data.nonce # nonce(connected_session_ids[s])
        /\ OneEvent(out, "UnexpectedError", connected_session_ids[s].peer_id)

\* C10 - No stale or duplicated pong is a timing sample: a second copy of
\* the pong a session accepted last, which echoes a probe older than the
\* one now in flight, emits no Pong event and does not clear processing.
C10_NoStalePong ==
    [][\A s \in Tracked :
          (IsReceived(call', s, "Pong")
              /\ answered = [session |-> s, nonce |-> call'.data.nonce]) =>
              /\ \A i \in DOMAIN out' : out'[i].event.ev # "Pong"
              /\ connected_session_ids'[s].processing = connected_session_ids[s].processing]_vars

\* C11 - Timeout is a notification only: a check-timeout tick leaves the
\* map as it was, also for the sessions it reports, and hands the
\* transport nothing: every output is an event for the channel.
C11_TimeoutNotificationOnly ==
    [][IsNotify(call', CHECK_TIMEOUT_TOKEN) =>
          /\ connected_session_ids' = connected_session_ids
          /\ sessions' = sessions
          /\ \A i \in DOMAIN out' :
                /\ out'[i].kind = "try_send"
                /\ out'[i].event.ev = "Timeout"]_vars

\* a tick reported a session, which is still tracked and processing
C11_Witness ==
    /\ IsNotify(call, CHECK_TIMEOUT_TOKEN)
    /\ Len(out) >= 1
    /\ \A i \in DOMAIN out :
          /\ out[i].session \in Tracked
          /\ connected_session_ids[out[i].session].processing

\* c delivers, on session s, bytes that do not decode or decode to a
\* message without a payload tag
IsUndecodable(c, s) ==
    /\ c.op = "received"
    /\ c.session = s
    /\ (~c.data.valid \/ c.data.payload_type = "NONE")

C13_UnknownTokenAborts ==
    [][/\ ~aborted
       /\ call'.op = "notify" =>
            IF call'.token \in {0, 1}
              THEN ~aborted'
              ELSE /\ aborted'
                   /\ out' = << >>
                   /\ connected_session_ids' = connected_session_ids
                   /\ sessions' = sessions]_vars

\* the handler panicked on a token of no timer with a probe in flight
C13_Witness ==
    /\ aborted
    /\ call.op = "notify"
    /\ call.token \notin {SEND_PING_TOKEN, CHECK_TIMEOUT_TOKEN}
    /\ \E s \in Tracked : connected_session_ids[s].processing

\* what o hands the transport: everything but the events
IsMessage(e) == e.kind # "try_send"

Messages(o) == SelectSeq(o, IsMessage)

\* the channel refused an event of o
EventLost(o) == \E i \in DOMAIN o : o[i].kind = "try_send" /\ ~o[i].ok

\* C14 - A failing event channel never affects the protocol: a callback
\* whose event the channel refuses still completes, and the map and the
\* messages it leaves are those the callback leaves with a working channel:
\* an accepted pong clears processing, a ping is answered by its pong, a
\* check-timeout tick still hands over one event per late session, and
\* nothing else changes.
C14_ChannelFailureIgnored ==
    [][EventLost(out') =>
          /\ ~aborted'
          /\ sessions' = sessions
          /\ CASE call'.op = "received" ->
                    LET s == call'.session
                        d == call'.data
                        ps == connected_session_ids[s]
                    IN  /\ connected_session_ids' =
                              IF /\ d.valid
                                 /\ d.payload_type = "Pong"
                                 /\ ps.processing
                                 /\ ps.last_ping \div TicksPerSec = d.nonce
                                THEN [connected_session_ids EXCEPT ![s].processing = FALSE]
                                ELSE connected_session_ids
                        /\ Messages(out') =
                              IF d.valid /\ d.payload_type = "Ping"
                                THEN <<[kind |-> "send_message", session |-> s,
                                        data |-> [valid |-> TRUE, payload_type |-> "Pong",
                                                  nonce |-> d.nonce],
                                        ok |-> out'[1].ok]>>
                                ELSE << >>
               [] call'.op = "notify" ->
                    /\ call'.token = CHECK_TIMEOUT_TOKEN
                    /\ connected_session_ids' = connected_session_ids
                    /\ Messages(out') = << >>
                    /\ Len(out') = Cardinality({s \in Tracked :
                            /\ connected_session_ids[s].processing
                            /\ now - connected_session_ids[s].last_ping >= ProbeTimeout})
               [] OTHER -> FALSE]_vars

\* a pong was accepted and processing cleared although the channel refused
\* the Pong event
C14_Witness ==
    \E s \in Tracked :
        /\ IsReceived(call, s, "Pong")
        /\ EventLost(out)
        /\ out[1].event.ev = "Pong"
        /\ ~connected_session_ids[s].processing

\* C15 is not stated here: the equality of the two shared secrets is a
\* property of the curve arithmetic behind agreement::agree_ephemeral, which
\* exchange.rs calls and does not contain.

\* C16 - Send-ping tick frame: a send-ping tick sets processing and
\* last_ping = now on the sessions that were not processing and leaves
\* every other session, the tracked ids and the open sessions as they
\* were; with no session to collect it hands out nothing and changes
\* nothing.
C16_SendPingFrame ==
    [][IsNotify(call', SEND_PING_TOKEN) =>
          /\ DOMAIN connected_session_ids' = Tracked
          /\ sessions' = sessions
          /\ \A s \in Tracked :
                connected_session_ids'[s] =
                    IF connected_session_ids[s].processing
                      THEN connected_session_ids[s]
                      ELSE [processing |-> TRUE, last_ping |-> now,
                            peer_id |-> connected_session_ids[s].peer_id]
          /\ (\A s \in Tracked : connected_session_ids[s].processing) =>
                /\ out' = << >>
                /\ connected_session_ids' = connected_session_ids]_vars

\* a tick collected one session and left the older probe of another alone
C16_Witness ==
    /\ IsNotify(call, SEND_PING_TOKEN)
    /\ \E s \in Tracked, T \in BroadcastTargets(out) :
          /\ s \notin T
          /\ connected_session_ids[s].processing
          /\ connected_session_ids[s].last_ping < now
          /\ \E r \in T : connected_session_ids[r].last_ping = now

\* C18 - Inbound pings do not touch outbound state: a received Ping leaves
\* the map as it was, whatever its nonce, so a probe in flight stays in
\* flight with its last_ping; on a tracked session the Pong is handed to
\* the transport first and the Ping event to the channel second, also when
\* the transport refuses the Pong.
C18_PingLeavesProbeAlone ==
    [][\A s \in Sessions :
          IsReceived(call', s, "Ping") =>
              /\ connected_session_ids' = connected_session_ids
              /\ s \in Tracked =>
                    /\ Len(out') = 2
                    /\ out'[1].kind = "send_message"
                    /\ out'[1].session = s
                    /\ out'[2].kind = "try_send"
                    /\ out'[2].event.ev = "Ping"
                    /\ out'[2].session = s]_vars

\* a ping with the nonce of the probe in flight arrived, its pong could not
\* be sent, the event was emitted and the probe is still in flight
C18_Witness ==
    \E s \in Tracked :
        /\ IsReceived(call, s, "Ping")
        /\ connected_session_ids[s].processing
        /\ call.data.nonce = nonce(connected_session_ids[s])
        /\ Len(out) = 2
        /\ ~out[1].ok
        /\ out[2].event.ev = "Ping"

\* s is tracked with a probe in flight
InFlight(s) == s \in Tracked /\ connected_session_ids[s].processing

\* the last callback was a check-timeout tick that handed a Timeout for s
\* to the event channel
Reported(s) ==
    /\ IsNotify(call, CHECK_TIMEOUT_TOKEN)
    /\ \E i \in DOMAIN out : out[i].session = s /\ out[i].event.ev = "Timeout"

\* C17 - Unanswered probes are reported: with a clock that advances and a
\* check-timeout timer that keeps firing, a session in flight is in the end
\* answered by an accepted pong, closed, or reported by a Timeout event; and
\* a Timeout event is handed over only for a session in flight whose probe
\* is ProbeTimeout old, so never for a session answered before that.
C17_UnansweredReported ==
    /\ \A s \in Sessions : InFlight(s) ~> (~InFlight(s) \/ Reported(s))
    /\ [][\A i \in DOMAIN out' :
              (out'[i].kind = "try_send" /\ out'[i].event.ev = "Timeout") =>
                  /\ InFlight(out'[i].session)
                  /\ now - connected_session_ids[out'[i].session].last_ping >= ProbeTimeout]_vars

\* a session probed, neither answered nor closed, was reported after the
\* clock had moved past the timeout
C17_Witness ==
    \E s \in Sessions :
        /\ Reported(s)
        /\ InFlight(s)
        /\ now - connected_session_ids[s].last_ping > ProbeTimeout

\* C19 - No rollback on broadcast failure: a send-ping tick whose broadcast
\* the transport refuses leaves every collected session processing with
\* last_ping = now and its peer, as a tick whose broadcast went out does;
\* while such a probe is in flight, later send-ping ticks neither collect
\* nor restamp the session, and every check-timeout tick at which the probe
\* is ProbeTimeout old hands over a Timeout for it.
C19_NoRollback ==
    [][/\ (IsBroadcast(call', out') /\ ~out'[1].ok) =>
              \A s \in out'[1].targets :
                  connected_session_ids'[s] =
                      PingStatus(TRUE, now, connected_session_ids[s].peer_id)
       /\ \A s \in unsent :
              /\ InFlight(s)
              /\ IsNotify(call', SEND_PING_TOKEN) =>
                    /\ \A T \in BroadcastTargets(out') : s \notin T
                    /\ connected_session_ids'[s] = connected_session_ids[s]
              /\ ( /\ IsNotify(call', CHECK_TIMEOUT_TOKEN)
                   /\ now - connected_session_ids[s].last_ping >= ProbeTimeout ) =>
                    \E i \in DOMAIN out' :
                        /\ out'[i].session = s
                        /\ out'[i].event =
                              EventTimeout(connected_session_ids[s].peer_id)]_vars

\* a check-timeout tick reported a session whose Ping was never broadcast
C19_Witness ==
    \E s \in unsent : Reported(s)

\* C20 - Every Pong event answers a distinct probe: received hands a Pong
\* event over for a session only if a send-ping tick has collected the
\* session since it opened and since its last Pong event; so a pong on a
\* session never probed is rejected, also when its nonce is the nonce of
\* the time the session opened.
C20_PongAnswersProbe ==
    [][IsPonged(call', out') => call'.session \in probed]_vars

\* a pong carrying the nonce of last_ping was rejected on a tracked session
\* with no probe in flight
C20_Witness ==
    \E s \in Tracked \ probed :
        /\ IsReceived(call, s, "Pong")
        /\ call.data.nonce = nonce(connected_session_ids[s])
        /\ OneEvent(out, "UnexpectedError", connected_session_ids[s].peer_id)
====
